---- MODULE Spec2Model ----
(***************************************************************************)
(* Timeout and deadline scheduling of libwebsockets                        *)
(* (lib/core-net/wsi-timeout.c): the per-thread timeout registry           *)
(* (pt->dll_timeout_owner), the per-thread sorted deadline queue           *)
(* (pt->dll_hrtimer_head), the sweep __lws_hrtimer_service and the          *)
(* per-vhost list of timed callbacks (vh->timed_vh_protocol_list).         *)
(*                                                                         *)
(* One per-thread context (pt) is modelled.  An lws_dll2 list is a         *)
(* sequence of connections, head first; a detached lws_dll2 has            *)
(* owner = prev = next = NULL, which is "not in the sequence".             *)
(***************************************************************************)
EXTENDS Integers, Sequences, FiniteSets, TLC

\* ------------------------------------------------------------- bounds
MaxClock == 3       \* lws_now_usecs() ranges over 1..MaxClock
MaxDelay == 2       \* delays passed to lws_set_timer_usecs: 0 and MaxDelay
MaxCbCalls == 1     \* lws_set_timer_usecs calls the callbacks of one sweep make
MaxReason == 1      \* enum pending_timeout values passed: NO_PENDING_TIMEOUT and MaxReason
MaxSecs == 1        \* seconds passed to lws_set_timeout: 0, MaxSecs and the kill values
MaxWall == 1        \* time() ranges over 0..MaxWall
MaxEntries == 2     \* addresses lws_malloc can return for a struct lws_timed_vh_protocol
MaxStale == 1       \* callbacks one sweep invokes for one released connection
MaxTimerCalls == 1  \* lws_set_timer_usecs calls of a thread that also calls lws_set_timeout

\* ---------------------------------------------------------- constants
NULL == 0
LWS_SET_TIMER_USEC_CANCEL == -1
NO_PENDING_TIMEOUT == 0
LWS_TO_KILL_ASYNC == -1
LWS_TO_KILL_SYNC == -2

Wsi == {1, 2, 3}                    \* the connections (struct lws) of the pt
Delays == {0, MaxDelay}
Usecs == Delays \cup {LWS_SET_TIMER_USEC_CANCEL}
Reasons == {NO_PENDING_TIMEOUT, MaxReason}
Secs == {0, MaxSecs, LWS_TO_KILL_ASYNC, LWS_TO_KILL_SYNC}

Threads == {1, 2}                   \* the threads that call into this file
PtWsi == [th \in Threads |-> th]    \* the connection each thread calls the operations for
Vhosts == {1, 2}                    \* the vhosts (struct lws_vhost) of the context
Entries == 1..MaxEntries            \* addresses of struct lws_timed_vh_protocol
Protocols == {1}                    \* const struct lws_protocols * passed
VhReasons == {MaxReason}            \* callback reasons passed
VhSecs == {0, MaxSecs}              \* seconds passed to lws_timed_callback_vh_protocol

VARIABLES
    now,               \* lws_now_usecs(), monotonic
    pending_timer,     \* wsi->pending_timer
    dll_hrtimer_head,  \* pt->dll_hrtimer_head: the deadline queue, head first
    wall,              \* time(), wall-clock seconds
    dll_timeout_owner, \* pt->dll_timeout_owner: the timeout registry, head first
    pending_timeout,   \* wsi->pending_timeout
    pending_timeout_limit, \* wsi->pending_timeout_limit
    pending_timeout_set,   \* wsi->pending_timeout_set
    freed,             \* connections __lws_close_free_wsi has released
    dll_hrtimer,       \* the links of the deadline queue: head and tail of
                       \* pt->dll_hrtimer_head; next, prev and owner of each
                       \* wsi->dll_hrtimer.  dll_hrtimer_head is the walk from
                       \* head along next
    kill_sync_wsi,     \* the wsi lws_set_timeout is at line 158 for: out of the
                       \* registry, lws_close_free_wsi not yet called; else NULL
    pc,                \* where __lws_hrtimer_service is: idle, loop, cb, close, after
    t,                 \* its argument t
    d,                 \* its iterator d (the wsi of the entry visited)
    d1,                \* its iterator d1: d->next as read at the top of the loop body
    ret,               \* <<v>> when __lws_hrtimer_service just returned v, else NoRet
    op,                \* history: the operation that made the last step
    opw,               \* history: the wsi that operation was called for, else NULL
    cbCalls,           \* history: lws_set_timer_usecs calls made by callbacks of this sweep
    cbArmed,           \* history: the running callback scheduled its own wsi
    fireCount,         \* history: callbacks this sweep invoked, per wsi
    startDue,          \* history: the deadline of each wsi queued and due at sweep start
    cbCancelled,       \* history: wsi a callback of this sweep cancelled
    cbSched,           \* history: wsi a callback of this sweep scheduled
    noProtocol,        \* history: wsi this sweep serviced while it had no protocol
    lastFired,         \* history: the deadline of the last wsi this sweep fired, else 0
    startLen,          \* history: the number of entries queued at sweep start
    fired,             \* history: wsi whose callback was invoked, not scheduled since
    timed_vh_protocol_list, \* vh->timed_vh_protocol_list: the head of each vhost's list
    timed_vh_protocol, \* the struct lws_timed_vh_protocol at each address
    allocated,         \* the addresses lws_malloc has handed out and lws_free not taken back
    context_lock,      \* the thread holding the context lock, else NULL
    vhost_lock,        \* the thread holding each vhost's lock, else NULL
    vpc,               \* where each thread is in lws_timed_callback_vh_protocol
    vframe,            \* its arguments vh, prot, reason, secs and its local p
    vret,              \* <<v>> when a vhost operation just returned v to the thread
    vop,               \* history: the vhost operation that made the last step; again
                       \* when it repeats a remove that just returned 0
    vlinked,           \* history: per vhost, entries linked by line 214 and not removed
    pt_lock,           \* the thread holding the pt lock, else NULL
    tpc,               \* where each thread is in an exposed operation on a connection
    tframe,            \* its arguments wsi, reason, secs, us; the iterators p, tp of
                       \* line 57; inside lws_dll2: the local owner, the values v
                       \* and v2 the statement in progress has read, and ret, the
                       \* statement lws_dll2_remove returns to
    timerCalls         \* history: the lws_set_timer_usecs calls each thread has
                       \* made, counted up to MaxTimerCalls

vars == <<now, pending_timer, dll_hrtimer_head, wall, dll_timeout_owner,
          pending_timeout, pending_timeout_limit, pending_timeout_set, freed,
          kill_sync_wsi, dll_hrtimer,
          pc, t, d, d1, ret, op, opw, cbCalls, cbArmed, fireCount, startDue,
          cbCancelled, cbSched, noProtocol, lastFired, startLen, fired,
          timed_vh_protocol_list, timed_vh_protocol, allocated, context_lock,
          vhost_lock, vpc, vframe, vret, vop, vlinked,
          pt_lock, tpc, tframe, timerCalls>>

\* the timeout registry and its fields
registry == <<wall, dll_timeout_owner, pending_timeout, pending_timeout_limit,
              pending_timeout_set>>

\* the deadline queue and its field
timers == <<now, pending_timer, dll_hrtimer_head, dll_hrtimer>>

\* the position of __lws_hrtimer_service
sweep == <<pc, t, d, d1>>

hist == <<cbCalls, cbArmed, fireCount, startDue, cbCancelled, cbSched, noProtocol,
          lastFired, startLen, fired>>

\* the timed callbacks of the vhosts and the threads scheduling them
vhosts == <<timed_vh_protocol_list, timed_vh_protocol, allocated, context_lock,
            vhost_lock, vpc, vframe, vret, vop, vlinked>>

\* the threads inside the exposed operations on connections
ptcalls == <<pt_lock, tpc, tframe, timerCalls>>

NoRet == <<>>

\* ------------------------------------------------------------ lws_dll2
InList(q, w) == \E i \in 1..Len(q) : q[i] = w

IndexOf(q, w) == CHOOSE i \in 1..Len(q) : q[i] = w

\* lws_dll2_remove: nothing happens when the entry has no owner
lws_dll2_remove(q, w) == SelectSeq(q, LAMBDA x : x # w)

lws_dll2_add_before(q, w, after) ==
    LET i == IndexOf(q, after)
    IN  SubSeq(q, 1, i - 1) \o <<w>> \o SubSeq(q, i, Len(q))

lws_dll2_add_tail(q, w) == Append(q, w)

lws_dll2_add_head(q, w) == <<w>> \o q

lws_dll2_get_head(q) == IF q = <<>> THEN NULL ELSE q[1]

\* (d)->next, NULL for the tail and for a detached entry
dll2_next(q, w) ==
    IF InList(q, w) /\ IndexOf(q, w) < Len(q) THEN q[IndexOf(q, w) + 1] ELSE NULL

\* ------------------------------------------------ __lws_set_timer_usecs
\* mutant of line 46: the connection is left where it is linked
timer_unlink_missing(hq, tq, w) == [hq |-> hq, tq |-> tq]

\* line 46: lws_dll2_remove(&wsi->dll_hrtimer); hq is the deadline queue and
\* tq the timeout registry
timer_unlink(hq, tq, w) == [hq |-> lws_dll2_remove(hq, w), tq |-> tq]

\* mutant of line 62: the comparison reversed
hrtimer_before_reversed(w_pending_timer, wsi_pending_timer) ==
    w_pending_timer <= wsi_pending_timer

\* mutant of line 62: the new entry goes after the entries of equal deadline
hrtimer_before_strict(w_pending_timer, wsi_pending_timer) ==
    w_pending_timer > wsi_pending_timer

\* mutant of line 62: no entry is found to go before, the new one goes to the tail
hrtimer_before_never(w_pending_timer, wsi_pending_timer) == FALSE

\* line 62: the test that drops the new entry in before w
hrtimer_before(w_pending_timer, wsi_pending_timer) ==
    w_pending_timer >= wsi_pending_timer

\* lines 57-68: the first entry the new one goes before, NULL when there is none
RECURSIVE hrtimer_scan(_, _, _, _)
hrtimer_scan(q, i, pend, w) ==
    IF i > Len(q) THEN NULL
    ELSE IF hrtimer_before(pend[q[i]], pend[w]) THEN q[i]
    ELSE hrtimer_scan(q, i + 1, pend, w)

\* mutant of lines 48-51: the deadline is stored before the test for CANCEL
set_timer_usecs_store_first(q, pend, tq, w, us, clk) ==
    LET u == timer_unlink(q, tq, w)
        p2 == [pend EXCEPT ![w] = clk + us]
        w2 == hrtimer_scan(u.hq, 1, p2, w)
    IN  IF us = LWS_SET_TIMER_USEC_CANCEL
        THEN [q |-> u.hq, pend |-> p2, tq |-> u.tq]
        ELSE [q |-> IF w2 # NULL THEN lws_dll2_add_before(u.hq, w, w2)
                                 ELSE lws_dll2_add_tail(u.hq, w),
              pend |-> p2,
              tq |-> u.tq]

\* mutant of line 51: the deadline is not stored
set_timer_usecs_no_store(q, pend, tq, w, us, clk) ==
    LET u == timer_unlink(q, tq, w)
        w2 == hrtimer_scan(u.hq, 1, pend, w)
    IN  IF us = LWS_SET_TIMER_USEC_CANCEL
        THEN [q |-> u.hq, pend |-> pend, tq |-> u.tq]
        ELSE [q |-> IF w2 # NULL THEN lws_dll2_add_before(u.hq, w, w2)
                                 ELSE lws_dll2_add_tail(u.hq, w),
              pend |-> pend,
              tq |-> u.tq]

\* lines 41-76: the deadline queue (q), the pending_timer fields (pend) and the
\* timeout registry (tq) after the call, clk being lws_now_usecs() of line 51
set_timer_usecs(q, pend, tq, w, us, clk) ==
    LET u == timer_unlink(q, tq, w)
    IN  IF us = LWS_SET_TIMER_USEC_CANCEL
        THEN [q |-> u.hq, pend |-> pend, tq |-> u.tq]
        ELSE LET p2 == [pend EXCEPT ![w] = clk + us]
                 w2 == hrtimer_scan(u.hq, 1, p2, w)
             IN  [q |-> IF w2 # NULL THEN lws_dll2_add_before(u.hq, w, w2)
                                     ELSE lws_dll2_add_tail(u.hq, w),
                  pend |-> p2,
                  tq |-> u.tq]

\* ---------------------------------------------------- __lws_set_timeout
\* mutant of line 142: the wrong link of the wsi is removed
timeout_unlink_hrtimer(tq, hq, w) == [tq |-> tq, hq |-> lws_dll2_remove(hq, w)]

\* line 142: lws_dll2_remove(&wsi->dll_timeout)
timeout_unlink(tq, hq, w) == [tq |-> lws_dll2_remove(tq, w), hq |-> hq]

\* mutant of lines 143-144: the test for no reason is missing
timeout_link_always(tq, w, reason) == lws_dll2_add_head(tq, w)

\* lines 143-146: the registry after the connection, unlinked, is armed with reason
timeout_link(tq, w, reason) ==
    IF reason = NO_PENDING_TIMEOUT THEN tq ELSE lws_dll2_add_head(tq, w)

\* mutant of lines 164-165: LWS_TO_KILL_ASYNC is passed on as it is
timeout_secs_kept(secs) == secs

\* lines 156-165: the seconds __lws_set_timeout is given
timeout_secs(secs) == IF secs = LWS_TO_KILL_ASYNC THEN 0 ELSE secs

\* __lws_close_free_wsi / lws_close_free_wsi: the connection leaves both lists
close_free_wsi(q, w) == lws_dll2_remove(q, w)

\* the connections the threads call the operations for
PtConns == {PtWsi[th] : th \in Threads}

\* the links of the list whose entries are q, head first: what lws_dll2_add_tail,
\* lws_dll2_add_before and lws_dll2_remove leave when each runs alone
dll2_links(q) ==
    LET at == [w \in Wsi |-> IF InList(q, w) THEN IndexOf(q, w) ELSE 0]
    IN  [head  |-> lws_dll2_get_head(q),
         tail  |-> IF q = <<>> THEN NULL ELSE q[Len(q)],
         next  |-> [w \in Wsi |-> IF at[w] > 0 /\ at[w] < Len(q)
                                  THEN q[at[w] + 1] ELSE NULL],
         prev  |-> [w \in Wsi |-> IF at[w] > 1 THEN q[at[w] - 1] ELSE NULL],
         owner |-> [w \in Wsi |-> at[w] > 0]]

\* the links l of the list q once an operation running alone has made it q2:
\* no link is written when no entry moves
dll2_relink(l, q, q2) == IF q2 = q THEN l ELSE dll2_links(q2)

RECURSIVE dll2_walk_from(_, _, _, _)
\* the entries a walk from e along next meets, up to NULL or to the first
\* entry it meets a second time: that entry ends the walk of a cyclic list
dll2_walk_from(next, e, seen, acc) ==
    IF e = NULL THEN acc
    ELSE IF e \in seen THEN Append(acc, e)
    ELSE dll2_walk_from(next, next[e], seen \cup {e}, Append(acc, e))

\* lws_start_foreach_dll over the links l: the walk from the head
dll2_walk(l) == dll2_walk_from(l.next, l.head, {}, <<>>)

\* what a read of p->next gives: the link of p, NULL when p is detached; any
\* pointer once p has been released
dll2_next_read(q, p) ==
    IF p \in freed THEN Wsi \cup {NULL} ELSE {dll2_next(q, p)}

\* what a thread reads in a pointer field of the dll_hrtimer of w that holds
\* x: x; any of the pointers in use once w has been released
dll2_read(w, x) ==
    IF w \in freed THEN PtConns \cup {NULL} ELSE {x}

\* what a thread reads in the owner field of the dll_hrtimer of w
dll2_owner_read(w, x) ==
    IF w \in freed THEN BOOLEAN ELSE {x}

\* what a read of w->pending_timer gives: the field; any value once w has been
\* released
pending_timer_read(w) ==
    IF w \in freed THEN 0..(MaxClock + MaxDelay) ELSE {pending_timer[w]}

\* ---------------------------------------------------------------- Init
Zero == [w \in Wsi |-> 0]

\* a struct lws_timed_vh_protocol nobody has written to
NoEntry == [next |-> NULL, protocol |-> NULL, reason |-> 0, time |-> 0, tsi_req |-> 0]

\* the frame of a thread that is not inside lws_timed_callback_vh_protocol
NoFrame == [vh |-> NULL, prot |-> NULL, reason |-> 0, secs |-> 0, p |-> NULL]

\* the frame of a thread that is not inside an operation on a connection
NoCall == [wsi |-> NULL, reason |-> NO_PENDING_TIMEOUT, secs |-> 0, us |-> 0,
           p |-> NULL, tp |-> NULL, owner |-> FALSE, v |-> NULL, v2 |-> NULL,
           ret |-> "idle"]

NoVop == [name |-> "init", th |-> NULL, vh |-> NULL, p |-> NULL, again |-> FALSE]

Init ==
    /\ now = 1
    /\ pending_timer = Zero
    /\ dll_hrtimer_head = <<>>
    /\ wall = 0
    /\ dll_timeout_owner = <<>>
    /\ pending_timeout = [w \in Wsi |-> NO_PENDING_TIMEOUT]
    /\ pending_timeout_limit = Zero
    /\ pending_timeout_set = Zero
    /\ freed = {}
    /\ kill_sync_wsi = NULL
    /\ dll_hrtimer = dll2_links(dll_hrtimer_head)
    /\ pc = "idle"
    /\ t = 0
    /\ d = NULL
    /\ d1 = NULL
    /\ ret = NoRet
    /\ op = "init"
    /\ opw = NULL
    /\ cbCalls = 0
    /\ cbArmed = FALSE
    /\ fireCount = Zero
    /\ startDue = Zero
    /\ cbCancelled = {}
    /\ cbSched = {}
    /\ noProtocol = {}
    /\ lastFired = 0
    /\ startLen = 0
    /\ fired = {}
    /\ timed_vh_protocol_list = [vh \in Vhosts |-> NULL]
    /\ timed_vh_protocol = [e \in Entries |-> NoEntry]
    /\ allocated = {}
    /\ context_lock = NULL
    /\ vhost_lock = [vh \in Vhosts |-> NULL]
    /\ vpc = [th \in Threads |-> "idle"]
    /\ vframe = [th \in Threads |-> NoFrame]
    /\ vret = [th \in Threads |-> NoRet]
    /\ vop = NoVop
    /\ vlinked = [vh \in Vhosts |-> {}]
    /\ pt_lock = NULL
    /\ tpc = [th \in Threads |-> "idle"]
    /\ tframe = [th \in Threads |-> NoCall]
    /\ timerCalls = [th \in Threads |-> 0]

\* the monotonic clock advances, between operations or while a callback runs
Tick ==
    /\ pc \in {"idle", "cb"}
    /\ now < MaxClock
    /\ now' = now + 1
    /\ op' = "tick"
    /\ opw' = NULL
    /\ ret' = NoRet
    /\ UNCHANGED <<pending_timer, dll_hrtimer_head, dll_hrtimer, freed, kill_sync_wsi>>
    /\ UNCHANGED <<registry, sweep, hist>>
    /\ UNCHANGED <<vhosts, ptcalls>>

\* the wall clock advances
TickWall ==
    /\ pc \in {"idle", "cb"}
    /\ wall < MaxWall
    /\ wall' = wall + 1
    /\ op' = "tick"
    /\ opw' = NULL
    /\ ret' = NoRet
    /\ UNCHANGED <<dll_timeout_owner, pending_timeout, pending_timeout_limit,
                   pending_timeout_set, freed, kill_sync_wsi>>
    /\ UNCHANGED <<timers, sweep, hist>>
    /\ UNCHANGED <<vhosts, ptcalls>>

\* lws_set_timer_usecs(wsi, us), called between sweeps or by a running callback:
\* lines 78-82 and 41-76
lws_set_timer_usecs(w, us) ==
    LET r == set_timer_usecs(dll_hrtimer_head, pending_timer, dll_timeout_owner,
                             w, us, now)
    IN  /\ pc \in {"idle", "cb"}
        /\ kill_sync_wsi = NULL
        /\ pc = "cb" => cbCalls < MaxCbCalls
        /\ w \notin freed
        /\ dll_hrtimer_head' = r.q
        /\ dll_hrtimer' = dll2_relink(dll_hrtimer, dll_hrtimer_head, dll_hrtimer_head')
        /\ pending_timer' = r.pend
        /\ dll_timeout_owner' = r.tq
        /\ op' = IF us # LWS_SET_TIMER_USEC_CANCEL THEN "schedule"
                 ELSE IF InList(dll_hrtimer_head, w) THEN "cancel_queued"
                 ELSE "cancel_absent"
        /\ opw' = w
        /\ ret' = NoRet
        /\ IF pc = "cb"
           THEN /\ cbCalls' = cbCalls + 1
                /\ cbArmed' = IF w = d THEN us # LWS_SET_TIMER_USEC_CANCEL ELSE cbArmed
                /\ cbCancelled' = IF us = LWS_SET_TIMER_USEC_CANCEL
                                  THEN cbCancelled \cup {w} ELSE cbCancelled
                /\ cbSched' = IF us # LWS_SET_TIMER_USEC_CANCEL
                              THEN cbSched \cup {w} ELSE cbSched
           ELSE UNCHANGED <<cbCalls, cbArmed, cbCancelled, cbSched>>
        /\ fired' = IF us # LWS_SET_TIMER_USEC_CANCEL THEN fired \ {w} ELSE fired
        /\ UNCHANGED <<fireCount, startDue, noProtocol, lastFired, startLen>>
        /\ UNCHANGED <<now, wall, pending_timeout, pending_timeout_limit,
                       pending_timeout_set, freed, kill_sync_wsi, sweep>>
        /\ UNCHANGED <<vhosts, ptcalls>>

\* lws_remove_from_timeout_list(wsi): lines 24-38
lws_remove_from_timeout_list(w) ==
    LET u == timeout_unlink(dll_timeout_owner, dll_hrtimer_head, w)
    IN  /\ pc \in {"idle", "cb"}
        /\ kill_sync_wsi = NULL
        /\ w \notin freed
        /\ dll_timeout_owner' = u.tq
        /\ dll_hrtimer_head' = u.hq
        /\ dll_hrtimer' = dll2_relink(dll_hrtimer, dll_hrtimer_head, dll_hrtimer_head')
        /\ op' = "disarm"
        /\ opw' = w
        /\ ret' = NoRet
        /\ UNCHANGED <<now, pending_timer, wall, pending_timeout, pending_timeout_limit,
                       pending_timeout_set, freed, kill_sync_wsi,
                       sweep, hist>>
        /\ UNCHANGED <<vhosts, ptcalls>>

\* lws_set_timeout(wsi, reason, secs), called between sweeps or by a running
\* callback: lines 149-170 and 128-147; with LWS_TO_KILL_SYNC up to the return
\* of lws_remove_from_timeout_list, line 157
lws_set_timeout(w, reason, secs) ==
    LET u == timeout_unlink(dll_timeout_owner, dll_hrtimer_head, w)
    IN  /\ pc \in {"idle", "cb"}
        /\ kill_sync_wsi = NULL
        /\ w \notin freed
        /\ ret' = NoRet
        /\ opw' = w
        /\ freed' = freed
        /\ IF secs = LWS_TO_KILL_SYNC
           THEN /\ dll_timeout_owner' = u.tq
                /\ dll_hrtimer_head' = u.hq
                /\ dll_hrtimer' = dll2_relink(dll_hrtimer, dll_hrtimer_head, dll_hrtimer_head')
                /\ kill_sync_wsi' = w
                /\ op' = "kill_unlink"
                /\ UNCHANGED <<pending_timeout, pending_timeout_limit,
                               pending_timeout_set>>
           ELSE /\ pending_timeout_limit' =
                       [pending_timeout_limit EXCEPT ![w] = timeout_secs(secs)]
                /\ pending_timeout_set' = [pending_timeout_set EXCEPT ![w] = wall]
                /\ pending_timeout' = [pending_timeout EXCEPT ![w] = reason]
                /\ dll_timeout_owner' = timeout_link(u.tq, w, reason)
                /\ dll_hrtimer_head' = u.hq
                /\ dll_hrtimer' = dll2_relink(dll_hrtimer, dll_hrtimer_head, dll_hrtimer_head')
                /\ kill_sync_wsi' = NULL
                /\ op' = "arm"
        /\ UNCHANGED <<now, pending_timer, wall, sweep, hist>>
        /\ UNCHANGED <<vhosts, ptcalls>>

\* lines 158-161 of lws_set_timeout: lws_close_free_wsi, and the return
lws_set_timeout_kill_close ==
    /\ kill_sync_wsi # NULL
    /\ dll_timeout_owner' = close_free_wsi(dll_timeout_owner, kill_sync_wsi)
    /\ dll_hrtimer_head' = close_free_wsi(dll_hrtimer_head, kill_sync_wsi)
    /\ dll_hrtimer' = dll2_relink(dll_hrtimer, dll_hrtimer_head, dll_hrtimer_head')
    /\ freed' = freed \cup {kill_sync_wsi}
    /\ kill_sync_wsi' = NULL
    /\ op' = "kill_sync"
    /\ opw' = kill_sync_wsi
    /\ ret' = NoRet
    /\ UNCHANGED <<now, pending_timer, wall, pending_timeout, pending_timeout_limit,
                   pending_timeout_set, sweep, hist>>
    /\ UNCHANGED <<vhosts, ptcalls>>

\* __lws_hrtimer_service(pt, t) is entered: lines 86-92
hrtimer_service_enter(tt) ==
    /\ pc = "idle"
    /\ kill_sync_wsi = NULL
    /\ pc' = "loop"
    /\ t' = tt
    /\ d' = lws_dll2_get_head(dll_hrtimer_head)
    /\ d1' = NULL
    /\ op' = "enter"
    /\ opw' = NULL
    /\ ret' = NoRet
    /\ startDue' = [w \in Wsi |->
                      IF InList(dll_hrtimer_head, w) /\ pending_timer[w] <= tt
                      THEN pending_timer[w] ELSE 0]
    /\ fireCount' = Zero
    /\ cbCancelled' = {}
    /\ cbSched' = {}
    /\ noProtocol' = {}
    /\ cbCalls' = 0
    /\ cbArmed' = FALSE
    /\ lastFired' = 0
    /\ startLen' = Len(dll_hrtimer_head)
    /\ UNCHANGED <<timers, registry, freed, kill_sync_wsi, fired>>
    /\ UNCHANGED <<vhosts, ptcalls>>

\* line 99: the loop ends at the first entry in the future
hrtimer_future(wsi_pending_timer, tt) == wsi_pending_timer > tt

\* mutant of line 102: the entry is left linked while its callback runs
hrtimer_unlink_missing(q, pend, tq, w, clk) == [q |-> q, pend |-> pend, tq |-> tq]

\* line 102: lws_set_timer_usecs(wsi, LWS_SET_TIMER_USEC_CANCEL)
hrtimer_unlink(q, pend, tq, w, clk) ==
    set_timer_usecs(q, pend, tq, w, LWS_SET_TIMER_USEC_CANCEL, clk)

\* one pass of the loop body up to the callback: lines 91-108;
\* has_protocol is wsi->protocol != NULL as line 106 reads it,
\* wsi_pending_timer is wsi->pending_timer as line 99 reads it and nx is
\* d->next as the head of the loop reads it into d1.  The three are reads of
\* released memory when a callback had lws_close_free_wsi called for the
\* entry the sweep had saved in d1; what lines 102-108 write to such an entry
\* is not followed.
hrtimer_service_visit(has_protocol, wsi_pending_timer, nx) ==
    /\ pc = "loop"
    /\ kill_sync_wsi = NULL
    /\ d = NULL => (wsi_pending_timer = 0 /\ nx = NULL)
    /\ d # NULL => (/\ wsi_pending_timer \in pending_timer_read(d)
                    /\ nx \in dll2_next_read(dll_hrtimer_head, d))
    /\ (d \in freed /\ has_protocol /\ ~hrtimer_future(wsi_pending_timer, t))
          => fireCount[d] < MaxStale
    /\ op' = "visit"
    /\ opw' = d
    /\ ret' = NoRet
    /\ IF d = NULL \/ hrtimer_future(wsi_pending_timer, t)
       THEN /\ pc' = "after"
            /\ d1' = IF d = NULL THEN d1 ELSE nx
            /\ UNCHANGED <<d, pending_timer, dll_hrtimer_head, dll_hrtimer, dll_timeout_owner>>
            /\ UNCHANGED hist
       ELSE LET r == hrtimer_unlink(dll_hrtimer_head, pending_timer,
                                    dll_timeout_owner, d, now)
            IN  /\ d1' = nx
                /\ dll_hrtimer_head' = r.q
                /\ dll_hrtimer' = dll2_relink(dll_hrtimer, dll_hrtimer_head, dll_hrtimer_head')
                /\ pending_timer' = r.pend
                /\ dll_timeout_owner' = r.tq
                /\ cbCalls' = cbCalls
                /\ cbArmed' = FALSE
                /\ IF has_protocol
                   THEN /\ pc' = "cb"
                        /\ d' = d
                        /\ fireCount' = [fireCount EXCEPT ![d] = @ + 1]
                        /\ noProtocol' = noProtocol
                        /\ lastFired' = wsi_pending_timer
                        /\ fired' = fired \cup {d}
                   ELSE /\ pc' = "loop"
                        /\ d' = nx
                        /\ fireCount' = fireCount
                        /\ noProtocol' = noProtocol \cup {d}
                        /\ UNCHANGED <<lastFired, fired>>
                /\ UNCHANGED <<startDue, cbCancelled, cbSched, startLen>>
    /\ UNCHANGED <<now, wall, pending_timeout, pending_timeout_limit,
                   pending_timeout_set, freed, kill_sync_wsi, t>>
    /\ UNCHANGED <<vhosts, ptcalls>>

\* the LWS_CALLBACK_TIMER callback returns rc: lines 106-111
hrtimer_service_cb_return(rc) ==
    /\ pc = "cb"
    /\ kill_sync_wsi = NULL
    /\ op' = "cb_return"
    /\ opw' = d
    /\ ret' = NoRet
    /\ IF rc # 0
       THEN /\ pc' = "close"
            /\ d' = d
       ELSE /\ pc' = "loop"
            /\ d' = d1
    /\ UNCHANGED <<timers, registry, freed, kill_sync_wsi, t, d1, hist>>
    /\ UNCHANGED <<vhosts, ptcalls>>

\* lines 109-111: the connection whose callback failed is closed
hrtimer_service_close ==
    /\ pc = "close"
    /\ op' = "close"
    /\ opw' = d
    /\ ret' = NoRet
    /\ dll_hrtimer_head' = close_free_wsi(dll_hrtimer_head, d)
    /\ dll_hrtimer' = dll2_relink(dll_hrtimer, dll_hrtimer_head, dll_hrtimer_head')
    /\ dll_timeout_owner' = close_free_wsi(dll_timeout_owner, d)
    /\ freed' = freed \cup {d}
    /\ kill_sync_wsi' = kill_sync_wsi
    /\ pc' = "loop"
    /\ d' = d1
    /\ UNCHANGED <<now, pending_timer, wall, pending_timeout, pending_timeout_limit,
                   pending_timeout_set, t, d1, hist>>
    /\ UNCHANGED <<vhosts, ptcalls>>

\* mutant of line 122: a head due exactly now is taken for a future one
hrtimer_service_result_lt(q, pend, tt, clk) ==
    IF lws_dll2_get_head(q) = NULL THEN 0
    ELSE IF pend[lws_dll2_get_head(q)] < clk THEN 1
    ELSE pend[lws_dll2_get_head(q)] - clk

\* mutant of line 121: the clock is not read again, the argument t is used
hrtimer_service_result_stale(q, pend, tt, clk) ==
    IF lws_dll2_get_head(q) = NULL THEN 0
    ELSE IF pend[lws_dll2_get_head(q)] <= tt THEN 1
    ELSE pend[lws_dll2_get_head(q)] - tt

\* lines 113-125: the value returned; tt is the argument t, which line 121
\* overwrites with clk, lws_now_usecs()
hrtimer_service_result(q, pend, tt, clk) ==
    IF lws_dll2_get_head(q) = NULL THEN 0
    ELSE IF pend[lws_dll2_get_head(q)] <= clk THEN 1
    ELSE pend[lws_dll2_get_head(q)] - clk

hrtimer_service_return ==
    /\ pc = "after"
    /\ op' = "return"
    /\ opw' = NULL
    /\ ret' = <<hrtimer_service_result(dll_hrtimer_head, pending_timer, t, now)>>
    /\ pc' = "idle"
    /\ t' = 0
    /\ d' = NULL
    /\ d1' = NULL
    /\ cbCalls' = 0
    /\ cbArmed' = FALSE
    /\ fireCount' = Zero
    /\ startDue' = Zero
    /\ cbCancelled' = {}
    /\ cbSched' = {}
    /\ noProtocol' = {}
    /\ lastFired' = 0
    /\ startLen' = 0
    /\ UNCHANGED <<timers, registry, freed, kill_sync_wsi, fired>>
    /\ UNCHANGED <<vhosts, ptcalls>>

\* ------------------------------------------------------------ the locks
\* lws_pt_lock, lws_context_lock and lws_vhost_lock return once no other
\* thread holds the lock
lws_lock_free(owner) == owner = NULL

\* ------------------------------------------- timed callbacks of a vhost
\* the entries reached from e along ->next, as lws_start_foreach_llp walks
\* them; a list is never cyclic, seen only bounds the recursion
RECURSIVE vh_walk(_, _, _)
vh_walk(e, ent, seen) ==
    IF e = NULL \/ e \in seen THEN <<>>
    ELSE <<e>> \o vh_walk(ent[e].next, ent, seen \cup {e})

\* vh->timed_vh_protocol_list from its head on
vh_list(vh) == vh_walk(timed_vh_protocol_list[vh], timed_vh_protocol, {})

\* mutant of line 180: the list is cut at p instead of being closed over it
RECURSIVE timed_callback_remove_cut(_, _, _, _, _, _)
timed_callback_remove_cut(head, ent, alloc, pt, p, seen) ==
    LET star == IF pt = NULL THEN head ELSE ent[pt].next
    IN  IF star = NULL \/ star \in seen
        THEN [head |-> head, ent |-> ent, alloc |-> alloc, ret |-> 1]
        ELSE IF star = p
        THEN [head |-> IF pt = NULL THEN NULL ELSE head,
              ent |-> [(IF pt = NULL THEN ent
                        ELSE [ent EXCEPT ![pt].next = NULL])
                       EXCEPT ![p] = NoEntry],
              alloc |-> alloc \ {p},
              ret |-> 0]
        ELSE timed_callback_remove_cut(head, ent, alloc, star, p, seen \cup {star})

\* lines 174-188, __lws_timed_callback_remove: pt is the link examined, NULL
\* standing for &vh->timed_vh_protocol_list and e for &e->next; the head, the
\* entries, the allocated addresses and the value returned
RECURSIVE timed_callback_remove(_, _, _, _, _, _)
timed_callback_remove(head, ent, alloc, pt, p, seen) ==
    LET star == IF pt = NULL THEN head ELSE ent[pt].next
    IN  IF star = NULL \/ star \in seen
        THEN [head |-> head, ent |-> ent, alloc |-> alloc, ret |-> 1]
        ELSE IF star = p
        THEN [head |-> IF pt = NULL THEN ent[p].next ELSE head,
              ent |-> [(IF pt = NULL THEN ent
                        ELSE [ent EXCEPT ![pt].next = ent[p].next])
                       EXCEPT ![p] = NoEntry],
              alloc |-> alloc \ {p},
              ret |-> 0]
        ELSE timed_callback_remove(head, ent, alloc, star, p, seen \cup {star})

\* __lws_timed_callback_remove(vh, p) called by a thread that took the context
\* lock and the lock of vh for it (line 172) and gives both back after it
lws_timed_callback_remove(th, vh, p) ==
    LET r == timed_callback_remove(timed_vh_protocol_list[vh], timed_vh_protocol,
                                   allocated, NULL, p, {})
    IN  /\ vpc[th] = "idle"
        /\ lws_lock_free(context_lock)
        /\ lws_lock_free(vhost_lock[vh])
        /\ timed_vh_protocol_list' = [timed_vh_protocol_list EXCEPT ![vh] = r.head]
        /\ timed_vh_protocol' = r.ent
        /\ allocated' = r.alloc
        /\ vret' = [vret EXCEPT ![th] = <<r.ret>>]
        /\ vop' = [name |-> "remove", th |-> th, vh |-> vh, p |-> p,
                    again |-> /\ vop.name = "remove" /\ vop.vh = vh /\ vop.p = p
                              /\ vret[vop.th] = <<0>>]
        /\ vlinked' = [vlinked EXCEPT ![vh] = IF r.ret = 0 THEN @ \ {p} ELSE @]
        /\ UNCHANGED <<context_lock, vhost_lock, vpc, vframe>>
        /\ UNCHANGED <<timers, registry, freed, kill_sync_wsi, sweep,
                       hist, ret, op, opw, ptcalls>>

\* lws_pthread_self_to_tsi: thread 1 is the service thread of tsi 0, the other
\* threads are not service threads
lws_pthread_self_to_tsi(th) == IF th = 1 THEN 0 ELSE -1

\* lines 202-204
tsi_req(th) == IF lws_pthread_self_to_tsi(th) < 0 THEN 0 ELSE lws_pthread_self_to_tsi(th)

\* mutant of lines 196-206: the context lock is taken before the allocation
vh_protocol_next_lock_first(label, p) ==
    CASE label = "call" -> "context_lock"
      [] label = "context_lock" -> "malloc"
      [] label = "malloc" -> IF p = NULL THEN "fail" ELSE "fields"
      [] label = "fields" -> "vhost_lock"
      [] label = "vhost_lock" -> "link_next"
      [] label = "link_next" -> "link_head"
      [] label = "link_head" -> "vhost_unlock"
      [] label = "vhost_unlock" -> "context_unlock"
      [] label = "context_unlock" -> "return"
      [] OTHER -> "idle"

\* mutant of lines 206-217: the list is linked without the locks
vh_protocol_next_unlocked(label, p) ==
    CASE label = "call" -> "malloc"
      [] label = "malloc" -> IF p = NULL THEN "fail" ELSE "fields"
      [] label = "fields" -> "link_next"
      [] label = "link_next" -> "link_head"
      [] label = "link_head" -> "return"
      [] OTHER -> "idle"

\* lines 196-219: the statement of lws_timed_callback_vh_protocol that follows
\* the one at label, p being the address lws_malloc returned
vh_protocol_next(label, p) ==
    CASE label = "call" -> "malloc"
      [] label = "malloc" -> IF p = NULL THEN "fail" ELSE "context_lock"
      [] label = "context_lock" -> "fields"
      [] label = "fields" -> "vhost_lock"
      [] label = "vhost_lock" -> "link_next"
      [] label = "link_next" -> "link_head"
      [] label = "link_head" -> "vhost_unlock"
      [] label = "vhost_unlock" -> "context_unlock"
      [] label = "context_unlock" -> "return"
      [] OTHER -> "idle"

\* what every step of a thread inside lws_timed_callback_vh_protocol does: it
\* moves on to the next statement and leaves the connections alone
vh_protocol_step(th, label) ==
    /\ vpc[th] = label
    /\ vpc' = [vpc EXCEPT ![th] = vh_protocol_next(label, vframe[th].p)]
    /\ vop' = [name |-> label, th |-> th, vh |-> vframe[th].vh, p |-> vframe[th].p]
    /\ UNCHANGED <<timers, registry, freed, kill_sync_wsi, sweep, hist,
                   ret, op, opw, ptcalls>>

\* lws_timed_callback_vh_protocol(vh, prot, reason, secs) is called: lines 191-194
vh_protocol_call(th, vh, prot, reason, secs) ==
    /\ vpc[th] = "idle"
    /\ vpc' = [vpc EXCEPT ![th] = vh_protocol_next("call", NULL)]
    /\ vframe' = [vframe EXCEPT ![th] = [vh |-> vh, prot |-> prot, reason |-> reason,
                                         secs |-> secs, p |-> NULL]]
    /\ vret' = [vret EXCEPT ![th] = NoRet]
    /\ vop' = [name |-> "call", th |-> th, vh |-> vh, p |-> NULL, again |-> FALSE]
    /\ UNCHANGED <<timed_vh_protocol_list, timed_vh_protocol, allocated, context_lock,
                   vhost_lock, vlinked>>
    /\ UNCHANGED <<timers, registry, freed, kill_sync_wsi, sweep, hist,
                   ret, op, opw, ptcalls>>

\* lines 196-204: lws_malloc returns p, NULL when it fails, and tsi_req is set
vh_protocol_malloc(th, p) ==
    /\ vpc[th] = "malloc"
    /\ vpc' = [vpc EXCEPT ![th] = vh_protocol_next("malloc", p)]
    /\ vop' = [name |-> "malloc", th |-> th, vh |-> vframe[th].vh, p |-> p]
    /\ vframe' = [vframe EXCEPT ![th].p = p]
    /\ IF p = NULL
       THEN UNCHANGED <<allocated, timed_vh_protocol>>
       ELSE /\ allocated' = allocated \cup {p}
            /\ timed_vh_protocol' = [timed_vh_protocol EXCEPT ![p].tsi_req = tsi_req(th)]
    /\ UNCHANGED <<timed_vh_protocol_list, context_lock, vhost_lock, vret, vlinked>>
    /\ UNCHANGED <<timers, registry, freed, kill_sync_wsi, sweep, hist,
                   ret, op, opw, ptcalls>>

\* line 200: return 1
vh_protocol_fail(th) ==
    /\ vpc[th] = "fail"
    /\ vpc' = [vpc EXCEPT ![th] = "idle"]
    /\ vop' = [name |-> "fail", th |-> th, vh |-> vframe[th].vh, p |-> NULL]
    /\ vframe' = [vframe EXCEPT ![th] = NoFrame]
    /\ vret' = [vret EXCEPT ![th] = <<1>>]
    /\ UNCHANGED <<timed_vh_protocol_list, timed_vh_protocol, allocated, context_lock,
                   vhost_lock, vlinked>>
    /\ UNCHANGED <<timers, registry, freed, kill_sync_wsi, sweep, hist,
                   ret, op, opw, ptcalls>>

\* line 206: lws_context_lock, which waits while another thread holds the lock
vh_protocol_context_lock(th) ==
    /\ vh_protocol_step(th, "context_lock")
    /\ lws_lock_free(context_lock)
    /\ context_lock' = th
    /\ UNCHANGED <<timed_vh_protocol_list, timed_vh_protocol, allocated, vhost_lock,
                   vframe, vret, vlinked>>

\* lines 208-210: protocol, reason and time = lws_now_secs() + secs
vh_protocol_fields(th) ==
    /\ vh_protocol_step(th, "fields")
    /\ timed_vh_protocol' =
          [timed_vh_protocol EXCEPT ![vframe[th].p] =
              [@ EXCEPT !.protocol = vframe[th].prot,
                        !.reason = vframe[th].reason,
                        !.time = wall + vframe[th].secs]]
    /\ UNCHANGED <<timed_vh_protocol_list, allocated, context_lock, vhost_lock,
                   vframe, vret, vlinked>>

\* line 212: lws_vhost_lock, which waits while another thread holds the lock
vh_protocol_vhost_lock(th) ==
    /\ vh_protocol_step(th, "vhost_lock")
    /\ lws_lock_free(vhost_lock[vframe[th].vh])
    /\ vhost_lock' = [vhost_lock EXCEPT ![vframe[th].vh] = th]
    /\ UNCHANGED <<timed_vh_protocol_list, timed_vh_protocol, allocated, context_lock,
                   vframe, vret, vlinked>>

\* line 213: p->next = vh->timed_vh_protocol_list
vh_protocol_link_next(th) ==
    /\ vh_protocol_step(th, "link_next")
    /\ timed_vh_protocol' =
          [timed_vh_protocol EXCEPT ![vframe[th].p].next =
              timed_vh_protocol_list[vframe[th].vh]]
    /\ UNCHANGED <<timed_vh_protocol_list, allocated, context_lock, vhost_lock,
                   vframe, vret, vlinked>>

\* line 214: vh->timed_vh_protocol_list = p
vh_protocol_link_head(th) ==
    /\ vh_protocol_step(th, "link_head")
    /\ timed_vh_protocol_list' =
          [timed_vh_protocol_list EXCEPT ![vframe[th].vh] = vframe[th].p]
    /\ vlinked' = [vlinked EXCEPT ![vframe[th].vh] = @ \cup {vframe[th].p}]
    /\ UNCHANGED <<timed_vh_protocol, allocated, context_lock, vhost_lock,
                   vframe, vret>>

\* line 215: lws_vhost_unlock
vh_protocol_vhost_unlock(th) ==
    /\ vh_protocol_step(th, "vhost_unlock")
    /\ vhost_lock' = [vhost_lock EXCEPT ![vframe[th].vh] = NULL]
    /\ UNCHANGED <<timed_vh_protocol_list, timed_vh_protocol, allocated, context_lock,
                   vframe, vret, vlinked>>

\* line 217: lws_context_unlock
vh_protocol_context_unlock(th) ==
    /\ vh_protocol_step(th, "context_unlock")
    /\ context_lock' = NULL
    /\ UNCHANGED <<timed_vh_protocol_list, timed_vh_protocol, allocated, vhost_lock,
                   vframe, vret, vlinked>>

\* line 219: return 0
vh_protocol_return(th) ==
    /\ vpc[th] = "return"
    /\ vpc' = [vpc EXCEPT ![th] = "idle"]
    /\ vop' = [name |-> "return", th |-> th, vh |-> vframe[th].vh, p |-> vframe[th].p]
    /\ vframe' = [vframe EXCEPT ![th] = NoFrame]
    /\ vret' = [vret EXCEPT ![th] = <<0>>]
    /\ UNCHANGED <<timed_vh_protocol_list, timed_vh_protocol, allocated, context_lock,
                   vhost_lock, vlinked>>
    /\ UNCHANGED <<timers, registry, freed, kill_sync_wsi, sweep, hist,
                   ret, op, opw, ptcalls>>

\* ------------------------------- threads in the operations on connections
\* The exposed operations statement by statement, for threads that call them
\* at the same time on different connections of one pt.  The registry is
\* written under the pt lock only, one step for each locked statement; the
\* deadline queue is written by lws_set_timer_usecs without the lock, so the
\* statements of lws_dll2 are followed one access to a link at a time, in the
\* order of the statements, each statement reading a field it names once.
\* Asserts are compiled out; owner->count, which no statement here reads, is
\* not followed.

\* no thread has faulted: a fault ends the process
PtRunning == \A th \in Threads : tpc[th] # "fault"

\* what every statement of a thread inside an operation does besides its own
\* effect: the thread moves on to the statement next
pt_step(th, label, next) ==
    /\ tpc[th] = label
    /\ PtRunning
    /\ tpc' = [tpc EXCEPT ![th] = next]
    /\ tframe' = IF next = "idle" THEN [tframe EXCEPT ![th] = NoCall] ELSE tframe
    /\ UNCHANGED <<now, wall, sweep, hist, ret, op, opw, vhosts, timerCalls>>

\* a thread calls an operation for wsi: no other thread is inside one for it
pt_call(th, frame, next) ==
    /\ tpc[th] = "idle"
    /\ PtRunning
    /\ frame.wsi \notin freed
    /\ \A th2 \in Threads \ {th} : tframe[th2].wsi # frame.wsi
    /\ tpc' = [tpc EXCEPT ![th] = next]
    /\ tframe' = [tframe EXCEPT ![th] = frame]
    /\ UNCHANGED <<timers, registry, freed, kill_sync_wsi, pt_lock>>
    /\ UNCHANGED <<sweep, hist, ret, op, opw, vhosts>>

\* lws_remove_from_timeout_list(wsi) is called: lines 30-33
pt_remove_call(th, w) ==
    /\ pt_call(th, [NoCall EXCEPT !.wsi = w], "rm_lock")
    /\ UNCHANGED timerCalls

\* lws_set_timeout(wsi, reason, secs) is called: lines 149-165
pt_set_timeout_call(th, w, reason, secs) ==
    /\ pt_call(th, [NoCall EXCEPT !.wsi = w, !.reason = reason, !.secs = secs,
                                  !.ret = IF secs = LWS_TO_KILL_SYNC
                                          THEN "ks_free" ELSE "idle"],
               IF secs = LWS_TO_KILL_SYNC THEN "rm_lock" ELSE "st_lock")
    /\ UNCHANGED timerCalls

\* lws_set_timer_usecs(wsi, us) is called: lines 78-81 and 41-46, up to the
\* entry of lws_dll2_remove
pt_set_timer_call(th, w, us) ==
    /\ pt_call(th, [NoCall EXCEPT !.wsi = w, !.us = us, !.ret = "tm_store"],
               "un_detached")
    /\ timerCalls' = [timerCalls EXCEPT ![th] =
                         IF @ < MaxTimerCalls THEN @ + 1 ELSE @]

\* line 35: lws_pt_lock
pt_remove_lock(th) ==
    /\ pt_step(th, "rm_lock", "rm_remove")
    /\ lws_lock_free(pt_lock)
    /\ pt_lock' = th
    /\ UNCHANGED <<pending_timer, dll_hrtimer_head, dll_hrtimer, dll_timeout_owner,
                   pending_timeout, pending_timeout_limit, pending_timeout_set, freed,
                   kill_sync_wsi>>

\* line 36: __lws_remove_from_timeout_list, line 27
pt_remove_unlink(th) ==
    LET u == timeout_unlink(dll_timeout_owner, dll_hrtimer_head, tframe[th].wsi)
    IN  /\ pt_step(th, "rm_remove", "rm_unlock")
        /\ dll_timeout_owner' = u.tq
        /\ UNCHANGED <<pending_timer, dll_hrtimer_head, dll_hrtimer, pending_timeout,
                       pending_timeout_limit, pending_timeout_set, freed, kill_sync_wsi,
                       pt_lock>>

\* line 37: lws_pt_unlock; lws_remove_from_timeout_list returns, to its caller
\* or to line 158 of lws_set_timeout
pt_remove_unlock(th) ==
    /\ pt_step(th, "rm_unlock",
               IF tframe[th].secs = LWS_TO_KILL_SYNC THEN "ks_close" ELSE "idle")
    /\ pt_lock' = NULL
    /\ UNCHANGED <<pending_timer, dll_hrtimer_head, dll_hrtimer, dll_timeout_owner,
                   pending_timeout, pending_timeout_limit, pending_timeout_set, freed,
                   kill_sync_wsi>>

\* line 167: lws_pt_lock
pt_set_timeout_lock(th) ==
    /\ pt_step(th, "st_lock", "st_set")
    /\ lws_lock_free(pt_lock)
    /\ pt_lock' = th
    /\ UNCHANGED <<pending_timer, dll_hrtimer_head, dll_hrtimer, dll_timeout_owner,
                   pending_timeout, pending_timeout_limit, pending_timeout_set, freed,
                   kill_sync_wsi>>

\* line 168: __lws_set_timeout, lines 128-147, with the secs of lines 164-165
pt_set_timeout_set(th) ==
    LET w == tframe[th].wsi
        u == timeout_unlink(dll_timeout_owner, dll_hrtimer_head, w)
    IN  /\ pt_step(th, "st_set", "st_unlock")
        /\ pending_timeout_limit' =
              [pending_timeout_limit EXCEPT ![w] = timeout_secs(tframe[th].secs)]
        /\ pending_timeout_set' = [pending_timeout_set EXCEPT ![w] = wall]
        /\ pending_timeout' = [pending_timeout EXCEPT ![w] = tframe[th].reason]
        /\ dll_timeout_owner' = timeout_link(u.tq, w, tframe[th].reason)
        /\ UNCHANGED <<pending_timer, dll_hrtimer_head, dll_hrtimer, freed,
                       kill_sync_wsi, pt_lock>>

\* line 169: lws_pt_unlock
pt_set_timeout_unlock(th) ==
    /\ pt_step(th, "st_unlock", "idle")
    /\ pt_lock' = NULL
    /\ UNCHANGED <<pending_timer, dll_hrtimer_head, dll_hrtimer, dll_timeout_owner,
                   pending_timeout, pending_timeout_limit, pending_timeout_set, freed,
                   kill_sync_wsi>>

\* one statement of a thread on the deadline queue, none of them under the pt
\* lock when reached from lws_set_timer_usecs: it reads or writes one field of
\* the links, leaves them as l and its own frame as frame
pt_access(th, label, next, frame, l) ==
    /\ tpc[th] = label
    /\ PtRunning
    /\ tpc' = [tpc EXCEPT ![th] = next]
    /\ tframe' = [tframe EXCEPT ![th] = IF next = "idle" THEN NoCall ELSE frame]
    /\ dll_hrtimer' = l
    /\ dll_hrtimer_head' = dll2_walk(l)
    /\ UNCHANGED <<now, pending_timer, registry, freed, kill_sync_wsi, pt_lock>>
    /\ UNCHANGED <<sweep, hist, ret, op, opw, vhosts, timerCalls>>

\* lws_dll2_remove(&wsi->dll_hrtimer) of line 46 and of lws_close_free_wsi,
\* statement by statement
pt_dll2_remove(th) ==
    LET f == tframe[th]
        e == f.wsi
        l == dll_hrtimer
        none == [f EXCEPT !.v = NULL, !.v2 = NULL]
    IN  \* if (lws_dll2_is_detached(d)) return;
        \/ /\ tpc[th] = "un_detached"
           /\ pt_access(th, "un_detached",
                        IF l.owner[e] THEN "un_next" ELSE f.ret, f, l)
        \* if (d->next) d->next->prev = d->prev;
        \/ /\ tpc[th] = "un_next"
           /\ pt_access(th, "un_next",
                        IF l.next[e] # NULL THEN "un_next_prev" ELSE "un_prev",
                        [f EXCEPT !.v = l.next[e]], l)
        \/ /\ tpc[th] = "un_next_prev"
           /\ pt_access(th, "un_next_prev", "un_next_store",
                        [f EXCEPT !.v2 = l.prev[e]], l)
        \/ /\ tpc[th] = "un_next_store"
           /\ pt_access(th, "un_next_store", "un_prev", none,
                        [l EXCEPT !.prev[f.v] = f.v2])
        \* if (d->prev) d->prev->next = d->next;
        \/ /\ tpc[th] = "un_prev"
           /\ pt_access(th, "un_prev",
                        IF l.prev[e] # NULL THEN "un_prev_next" ELSE "un_tail",
                        [f EXCEPT !.v = l.prev[e]], l)
        \/ /\ tpc[th] = "un_prev_next"
           /\ pt_access(th, "un_prev_next", "un_prev_store",
                        [f EXCEPT !.v2 = l.next[e]], l)
        \/ /\ tpc[th] = "un_prev_store"
           /\ pt_access(th, "un_prev_store", "un_tail", none,
                        [l EXCEPT !.next[f.v] = f.v2])
        \* if (d->owner->tail == d) d->owner->tail = d->prev;
        \/ /\ tpc[th] = "un_tail"
           /\ pt_access(th, "un_tail",
                        IF l.tail = e THEN "un_tail_prev" ELSE "un_head", f, l)
        \/ /\ tpc[th] = "un_tail_prev"
           /\ pt_access(th, "un_tail_prev", "un_tail_store",
                        [f EXCEPT !.v = l.prev[e]], l)
        \/ /\ tpc[th] = "un_tail_store"
           /\ pt_access(th, "un_tail_store", "un_head", none,
                        [l EXCEPT !.tail = f.v])
        \* if (d->owner->head == d) d->owner->head = d->next;
        \/ /\ tpc[th] = "un_head"
           /\ pt_access(th, "un_head",
                        IF l.head = e THEN "un_head_next" ELSE "un_owner", f, l)
        \/ /\ tpc[th] = "un_head_next"
           /\ pt_access(th, "un_head_next", "un_head_store",
                        [f EXCEPT !.v = l.next[e]], l)
        \/ /\ tpc[th] = "un_head_store"
           /\ pt_access(th, "un_head_store", "un_owner", none,
                        [l EXCEPT !.head = f.v])
        \* d->owner->count--; d->owner = NULL;
        \/ /\ tpc[th] = "un_owner"
           /\ pt_access(th, "un_owner", "un_clear_prev", f,
                        [l EXCEPT !.owner[e] = FALSE])
        \* d->prev = NULL;
        \/ /\ tpc[th] = "un_clear_prev"
           /\ pt_access(th, "un_clear_prev", "un_clear_next", f,
                        [l EXCEPT !.prev[e] = NULL])
        \* d->next = NULL; and the return
        \/ /\ tpc[th] = "un_clear_next"
           /\ pt_access(th, "un_clear_next", f.ret, f,
                        [l EXCEPT !.next[e] = NULL])

\* lines 159-161: lws_close_free_wsi is called: it takes the pt lock, takes
\* the connection out of the registry and enters lws_dll2_remove for its
\* entry of the deadline queue
pt_kill_close(th) ==
    /\ pt_step(th, "ks_close", "un_detached")
    /\ lws_lock_free(pt_lock)
    /\ pt_lock' = th
    /\ dll_timeout_owner' = close_free_wsi(dll_timeout_owner, tframe[th].wsi)
    /\ UNCHANGED <<pending_timer, dll_hrtimer_head, dll_hrtimer, pending_timeout,
                   pending_timeout_limit, pending_timeout_set, freed, kill_sync_wsi>>

\* lws_close_free_wsi releases the connection and the pt lock and returns;
\* line 161
pt_kill_free(th) ==
    /\ pt_step(th, "ks_free", "idle")
    /\ freed' = freed \cup {tframe[th].wsi}
    /\ pt_lock' = NULL
    /\ UNCHANGED <<pending_timer, dll_hrtimer_head, dll_hrtimer, dll_timeout_owner,
                   pending_timeout, pending_timeout_limit, pending_timeout_set,
                   kill_sync_wsi>>

\* lines 48-51: return for CANCEL, else the deadline is stored
pt_set_timer_store(th) ==
    /\ pt_step(th, "tm_store",
               IF tframe[th].us = LWS_SET_TIMER_USEC_CANCEL THEN "idle" ELSE "tm_head")
    /\ pending_timer' =
          IF tframe[th].us = LWS_SET_TIMER_USEC_CANCEL THEN pending_timer
          ELSE [pending_timer EXCEPT ![tframe[th].wsi] = now + tframe[th].us]
    /\ UNCHANGED <<dll_hrtimer_head, dll_hrtimer, dll_timeout_owner, pending_timeout,
                   pending_timeout_limit, pending_timeout_set, freed, kill_sync_wsi,
                   pt_lock>>

\* the walk of lines 57-68, which holds no lock
pt_set_timer_walk(th) ==
    LET f == tframe[th]
        l == dll_hrtimer
    IN  \* lines 57-58: p = pt->dll_hrtimer_head.head
        \/ /\ tpc[th] = "tm_head"
           /\ pt_access(th, "tm_head", "tm_next", [f EXCEPT !.p = l.head], l)
        \* lws_start_foreach_dll_safe: while (p) { tp = p->next; after the walk
        \* comes line 75
        \/ /\ tpc[th] = "tm_next"
           /\ IF f.p = NULL
              THEN pt_access(th, "tm_next", "at_tail", f, l)
              ELSE \E nx \in dll2_read(f.p, l.next[f.p]) :
                      pt_access(th, "tm_next", "tm_cmp", [f EXCEPT !.tp = nx], l)
        \* lines 59-68: w is the connection of p; the walk stops at it, line
        \* 62, or goes on with p = tp
        \/ /\ tpc[th] = "tm_cmp"
           /\ \E w_pending_timer \in pending_timer_read(f.p) :
                 IF hrtimer_before(w_pending_timer, pending_timer[f.wsi])
                 THEN pt_access(th, "tm_cmp", "ab_owner", f, l)
                 ELSE pt_access(th, "tm_cmp", "tm_next",
                                [f EXCEPT !.p = f.tp, !.tp = NULL], l)

\* line 64: lws_dll2_add_before(&wsi->dll_hrtimer, &w->dll_hrtimer), statement
\* by statement, and the return of line 66; the thread faults when it
\* dereferences the owner it read while w was detached
pt_dll2_add_before(th) ==
    LET f == tframe[th]
        e == f.wsi
        after == f.p
        l == dll_hrtimer
        none == [f EXCEPT !.v = NULL, !.v2 = NULL]
    IN  \* lws_dll2_owner_t *owner = after->owner;
        \* if (!lws_dll2_is_detached(d)) return;
        \/ /\ tpc[th] = "ab_owner"
           /\ \E o \in dll2_owner_read(after, l.owner[after]) :
                 pt_access(th, "ab_owner",
                           IF l.owner[e] THEN "idle" ELSE "ab_detached",
                           [f EXCEPT !.owner = o], l)
        \* if (lws_dll2_is_detached(after)) return;
        \/ /\ tpc[th] = "ab_detached"
           /\ \E o \in dll2_owner_read(after, l.owner[after]) :
                 pt_access(th, "ab_detached", IF o THEN "ab_set_owner" ELSE "idle",
                           f, l)
        \* d->owner = owner;
        \/ /\ tpc[th] = "ab_set_owner"
           /\ pt_access(th, "ab_set_owner", "ab_set_next", f,
                        [l EXCEPT !.owner[e] = f.owner])
        \* d->next = after;
        \/ /\ tpc[th] = "ab_set_next"
           /\ pt_access(th, "ab_set_next", "ab_prev", f,
                        [l EXCEPT !.next[e] = after])
        \* d->prev = after->prev;
        \/ /\ tpc[th] = "ab_prev"
           /\ \E v \in dll2_read(after, l.prev[after]) :
                 pt_access(th, "ab_prev", "ab_set_prev", [f EXCEPT !.v = v], l)
        \/ /\ tpc[th] = "ab_set_prev"
           /\ pt_access(th, "ab_set_prev", "ab_link", none,
                        [l EXCEPT !.prev[e] = f.v])
        \* if (after->prev) after->prev->next = d; else owner->head = d;
        \/ /\ tpc[th] = "ab_link"
           /\ \E v \in dll2_read(after, l.prev[after]) :
                 pt_access(th, "ab_link",
                           IF v # NULL THEN "ab_link_prev"
                           ELSE IF f.owner THEN "ab_link_head" ELSE "fault",
                           [f EXCEPT !.v = v], l)
        \/ /\ tpc[th] = "ab_link_prev"
           /\ pt_access(th, "ab_link_prev", "ab_after_prev", none,
                        [l EXCEPT !.next[f.v] = e])
        \/ /\ tpc[th] = "ab_link_head"
           /\ pt_access(th, "ab_link_head", "ab_after_prev", none,
                        [l EXCEPT !.head = e])
        \* after->prev = d; owner->count++; and the return of line 66
        \/ /\ tpc[th] = "ab_after_prev"
           /\ pt_access(th, "ab_after_prev", IF f.owner THEN "idle" ELSE "fault",
                        f, [l EXCEPT !.prev[after] = e])

\* line 75: lws_dll2_add_tail(&wsi->dll_hrtimer, &pt->dll_hrtimer_head),
\* statement by statement, and the return
pt_dll2_add_tail(th) ==
    LET f == tframe[th]
        e == f.wsi
        l == dll_hrtimer
        none == [f EXCEPT !.v = NULL, !.v2 = NULL]
    IN  \* if (!lws_dll2_is_detached(d)) return; d->prev = owner->tail;
        \/ /\ tpc[th] = "at_tail"
           /\ pt_access(th, "at_tail", IF l.owner[e] THEN "idle" ELSE "at_set_prev",
                        [f EXCEPT !.v = l.tail], l)
        \/ /\ tpc[th] = "at_set_prev"
           /\ pt_access(th, "at_set_prev", "at_prev", none,
                        [l EXCEPT !.prev[e] = f.v])
        \* if (d->prev) d->prev->next = d;
        \/ /\ tpc[th] = "at_prev"
           /\ pt_access(th, "at_prev",
                        IF l.prev[e] # NULL THEN "at_link" ELSE "at_set_next",
                        [f EXCEPT !.v = l.prev[e]], l)
        \/ /\ tpc[th] = "at_link"
           /\ pt_access(th, "at_link", "at_set_next", none,
                        [l EXCEPT !.next[f.v] = e])
        \* d->next = NULL;
        \/ /\ tpc[th] = "at_set_next"
           /\ pt_access(th, "at_set_next", "at_set_tail", f,
                        [l EXCEPT !.next[e] = NULL])
        \* owner->tail = d;
        \/ /\ tpc[th] = "at_set_tail"
           /\ pt_access(th, "at_set_tail", "at_head", f, [l EXCEPT !.tail = e])
        \* if (!owner->head) owner->head = d;
        \/ /\ tpc[th] = "at_head"
           /\ pt_access(th, "at_head",
                        IF l.head = NULL THEN "at_set_head" ELSE "at_set_owner", f, l)
        \/ /\ tpc[th] = "at_set_head"
           /\ pt_access(th, "at_set_head", "at_set_owner", f, [l EXCEPT !.head = e])
        \* d->owner = owner; owner->count++; and the return
        \/ /\ tpc[th] = "at_set_owner"
           /\ pt_access(th, "at_set_owner", "idle", f,
                        [l EXCEPT !.owner[e] = TRUE])

\* ------------------------------------------------------- specifications
\* the deadline queue and its sweep
Next ==
    \/ Tick
    \/ \E w \in Wsi, us \in Usecs : lws_set_timer_usecs(w, us)
    \/ \E tt \in 1..now : hrtimer_service_enter(tt)
    \/ \E has_protocol \in BOOLEAN, wsi_pending_timer \in 0..(MaxClock + MaxDelay),
          nx \in Wsi \cup {NULL} :
          hrtimer_service_visit(has_protocol, wsi_pending_timer, nx)
    \/ \E rc \in {0, 1} : hrtimer_service_cb_return(rc)
    \/ hrtimer_service_close
    \/ hrtimer_service_return

Spec == Init /\ [][Next]_vars

\* the timeout registry
NextRegistry ==
    \/ TickWall
    \/ \E w \in Wsi, reason \in Reasons, secs \in Secs :
          lws_set_timeout(w, reason, secs)
    \/ lws_set_timeout_kill_close
    \/ \E w \in Wsi : lws_remove_from_timeout_list(w)

SpecRegistry == Init /\ [][NextRegistry]_vars

\* calls on the timeout registry and on the deadline queue at one instant,
\* between sweeps
NextBoth ==
    \/ \E w \in Wsi, us \in Usecs : lws_set_timer_usecs(w, us)
    \/ \E w \in Wsi, reason \in Reasons, secs \in Secs :
          lws_set_timeout(w, reason, secs)
    \/ lws_set_timeout_kill_close
    \/ \E w \in Wsi : lws_remove_from_timeout_list(w)

SpecBoth == Init /\ [][NextBoth]_vars

\* threads scheduling timed callbacks on the vhosts, and removing them
NextVhost ==
    \/ \E th \in Threads, vh \in Vhosts, prot \in Protocols, reason \in VhReasons,
          secs \in VhSecs : vh_protocol_call(th, vh, prot, reason, secs)
    \/ \E th \in Threads, p \in (Entries \ allocated) \cup {NULL} :
          vh_protocol_malloc(th, p)
    \/ \E th \in Threads : vh_protocol_fail(th)
    \/ \E th \in Threads : vh_protocol_context_lock(th)
    \/ \E th \in Threads : vh_protocol_fields(th)
    \/ \E th \in Threads : vh_protocol_vhost_lock(th)
    \/ \E th \in Threads : vh_protocol_link_next(th)
    \/ \E th \in Threads : vh_protocol_link_head(th)
    \/ \E th \in Threads : vh_protocol_vhost_unlock(th)
    \/ \E th \in Threads : vh_protocol_context_unlock(th)
    \/ \E th \in Threads : vh_protocol_return(th)
    \/ \E th \in Threads, vh \in Vhosts, p \in Entries :
          lws_timed_callback_remove(th, vh, p)

SpecVhost == Init /\ [][NextVhost]_vars

\* the statements of the exposed operations, each run by any thread inside
PtStatement ==
    \/ \E th \in Threads : pt_remove_lock(th)
    \/ \E th \in Threads : pt_remove_unlink(th)
    \/ \E th \in Threads : pt_remove_unlock(th)
    \/ \E th \in Threads : pt_kill_close(th)
    \/ \E th \in Threads : pt_kill_free(th)
    \/ \E th \in Threads : pt_set_timeout_lock(th)
    \/ \E th \in Threads : pt_set_timeout_set(th)
    \/ \E th \in Threads : pt_set_timeout_unlock(th)
    \/ \E th \in Threads : pt_dll2_remove(th)
    \/ \E th \in Threads : pt_set_timer_store(th)
    \/ \E th \in Threads : pt_set_timer_walk(th)
    \/ \E th \in Threads : pt_dll2_add_before(th)
    \/ \E th \in Threads : pt_dll2_add_tail(th)

\* threads calling the exposed operations on the connections of one pt, each
\* thread lws_set_timer_usecs up to MaxTimerCalls times
NextPt ==
    \/ \E th \in Threads : pt_remove_call(th, PtWsi[th])
    \/ \E th \in Threads, reason \in Reasons, secs \in Secs :
          pt_set_timeout_call(th, PtWsi[th], reason, secs)
    \/ \E th \in Threads, us \in Usecs :
          timerCalls[th] < MaxTimerCalls /\ pt_set_timer_call(th, PtWsi[th], us)
    \/ PtStatement

SpecPt == Init /\ [][NextPt]_vars

\* threads calling lws_set_timer_usecs on the connections of one pt, any number
\* of times
NextPtTimer ==
    \/ \E th \in Threads, us \in Usecs : pt_set_timer_call(th, PtWsi[th], us)
    \/ \E th \in Threads : pt_dll2_remove(th)
    \/ \E th \in Threads : pt_set_timer_store(th)
    \/ \E th \in Threads : pt_set_timer_walk(th)
    \/ \E th \in Threads : pt_dll2_add_before(th)
    \/ \E th \in Threads : pt_dll2_add_tail(th)

SpecPtTimer == Init /\ [][NextPtTimer]_vars

\* the deadline queue and its sweep, with one connection armed and disarmed
\* between sweeps and by the callbacks
NextAll ==
    \/ Next
    \/ \E reason \in Reasons : lws_set_timeout(1, reason, 0)
    \/ lws_remove_from_timeout_list(1)

SpecAll == Init /\ [][NextAll]_vars

\* the sweep of connections scheduled with no delay, with connections killed
\* synchronously, and one armed, between sweeps and by the callbacks
NextKill ==
    \/ \E w \in Wsi : lws_set_timer_usecs(w, 0)
    \/ \E tt \in 1..now : hrtimer_service_enter(tt)
    \/ \E has_protocol \in BOOLEAN, wsi_pending_timer \in 0..(MaxClock + MaxDelay),
          nx \in Wsi \cup {NULL} :
          hrtimer_service_visit(has_protocol, wsi_pending_timer, nx)
    \/ \E rc \in {0, 1} : hrtimer_service_cb_return(rc)
    \/ hrtimer_service_close
    \/ hrtimer_service_return
    \/ \E w \in Wsi : lws_set_timeout(w, MaxReason, LWS_TO_KILL_SYNC)
    \/ lws_set_timeout_kill_close
    \/ lws_set_timeout(3, MaxReason, MaxSecs)

SpecKill == Init /\ [][NextKill]_vars

\* ------------------------------------------------------------- claims
Sorted(q, pend) == \A i \in 1..(Len(q) - 1) : pend[q[i]] <= pend[q[i + 1]]

Live == Wsi \ freed

\* C1: in every state reached by schedule, cancel and sweep operations, callbacks
\* included, the deadline queue read from head to tail has non-decreasing
\* pending_timer values.
C1_Sorted == Sorted(dll_hrtimer_head, pending_timer)

\* a callback has just re-armed its connection behind two entries of other deadlines
C1_Witness ==
    /\ pc = "cb"
    /\ op = "schedule"
    /\ Len(dll_hrtimer_head) = 3
    /\ pending_timer[dll_hrtimer_head[1]] < pending_timer[dll_hrtimer_head[2]]
    /\ pending_timer[dll_hrtimer_head[2]] < pending_timer[dll_hrtimer_head[3]]

\* C2: while the LWS_CALLBACK_TIMER callback of a connection runs, and when
\* __lws_close_free_wsi is called for it because the callback failed, the
\* connection is not in the deadline queue unless the callback re-armed it.
C2_UnlinkedBeforeCallback ==
    pc \in {"cb", "close"} => (InList(dll_hrtimer_head, d) => cbArmed)

\* the failed callback's connection is about to be closed, others still queued
C2_Witness ==
    /\ pc = "close"
    /\ ~cbArmed
    /\ ~InList(dll_hrtimer_head, d)
    /\ dll_hrtimer_head # <<>>

\* C3: when the loop of the sweep has ended, every connection that was queued
\* and due when the sweep started, that had a protocol and that no callback
\* cancelled or re-armed, has had its callback invoked exactly once and is no
\* longer queued.  (The claim says so of the re-armed connections too; the
\* statement checked here follows from the claim.)
C3_SweepComplete ==
    pc = "after" =>
        \A w \in Wsi :
            (startDue[w] # 0 /\ w \notin cbCancelled /\ w \notin cbSched
               /\ w \notin noProtocol)
            => (fireCount[w] = 1 /\ ~InList(dll_hrtimer_head, w))

\* C4: __lws_hrtimer_service returns 0 exactly when the deadline queue is empty
\* as it returns, a strictly positive value when it is not, and 1 when the
\* head's deadline is not later than the clock.
C4_ReturnZeroIffEmpty ==
    op = "return" =>
        /\ (ret[1] = 0) <=> (dll_hrtimer_head = <<>>)
        /\ dll_hrtimer_head # <<>> => ret[1] > 0
        /\ (dll_hrtimer_head # <<>> /\ pending_timer[dll_hrtimer_head[1]] <= now)
              => ret[1] = 1

\* the sweep returned 1 with a head that is already due
C4_Witness ==
    /\ op = "return"
    /\ dll_hrtimer_head # <<>>
    /\ pending_timer[dll_hrtimer_head[1]] <= now
    /\ ret = <<1>>

\* C5 as claimed: with the head's deadline H later than the argument t, the
\* sweep returns H - t.
C5_DistanceFromArgument ==
    [][(pc = "after" /\ pc' = "idle" /\ dll_hrtimer_head # <<>>
          /\ pending_timer[dll_hrtimer_head[1]] > t)
       => ret'[1] = pending_timer[dll_hrtimer_head[1]] - t]_vars

\* C5 amended: with the head's deadline H later than the clock as the sweep
\* returns, the sweep returns H - lws_now_usecs().
C5_DistanceFromClock ==
    (op = "return" /\ dll_hrtimer_head # <<>>
       /\ pending_timer[dll_hrtimer_head[1]] > now)
    => ret[1] = pending_timer[dll_hrtimer_head[1]] - now

\* the sweep returned a distance of 2
C5_Witness ==
    /\ op = "return"
    /\ dll_hrtimer_head # <<>>
    /\ pending_timer[dll_hrtimer_head[1]] = now + 2
    /\ ret = <<2>>

\* a step of the sweep that invokes the callback of a
FireStep(a) == pc = "loop" /\ pc' = "cb" /\ d = a

Cancels == {"cancel_queued", "cancel_absent"}

\* C6 as claimed: a connection scheduled at the deadline of queued connections
\* is placed behind them.
C6_EarlierFirst ==
    [][op' = "schedule" =>
          \A a \in Wsi \ {opw'} :
              (InList(dll_hrtimer_head', a) /\ pending_timer'[a] = pending_timer'[opw'])
              => IndexOf(dll_hrtimer_head', a) < IndexOf(dll_hrtimer_head', opw')]_vars

\* C6 amended: a connection scheduled at the deadline of queued connections is
\* placed ahead of them, and a sweep does not invoke the callback of a queued
\* connection while another of the same deadline is ahead of it in the queue,
\* unless a callback of this sweep scheduled one of the two.
C6_LaterFirst ==
    [][/\ op' = "schedule" =>
             \A a \in Wsi \ {opw'} :
                 (InList(dll_hrtimer_head', a)
                    /\ pending_timer'[a] = pending_timer'[opw'])
                 => IndexOf(dll_hrtimer_head', opw') < IndexOf(dll_hrtimer_head', a)
       /\ \A a \in Wsi, b \in Wsi :
             (/\ FireStep(a)
              /\ a # b
              /\ InList(dll_hrtimer_head, a)
              /\ InList(dll_hrtimer_head, b)
              /\ pending_timer[a] = pending_timer[b]
              /\ IndexOf(dll_hrtimer_head, b) < IndexOf(dll_hrtimer_head, a))
             => (a \in cbSched \/ b \in cbSched)]_vars

\* the sweep has just invoked the callback of the head while a connection of
\* the same deadline, scheduled before it, waits in the queue
C6_Witness ==
    /\ pc = "cb"
    /\ op = "visit"
    /\ cbSched = {}
    /\ fireCount = [Zero EXCEPT ![d] = 1]
    /\ \E a \in Wsi \ {d} :
          InList(dll_hrtimer_head, a) /\ pending_timer[a] = pending_timer[d]

\* C7 as claimed: a connection is in the deadline queue exactly when its
\* pending_timer is non-zero.
C7_QueuedIffDeadline ==
    \A w \in Live : InList(dll_hrtimer_head, w) <=> pending_timer[w] # 0

\* C7 amended: a connection in the deadline queue has a non-zero pending_timer;
\* a cancel, and the sweep servicing a due entry, take the connection out of
\* the queue and leave every pending_timer as it was.
C7_QueuedHasDeadline ==
    /\ [](\A w \in Live : InList(dll_hrtimer_head, w) => pending_timer[w] # 0)
    /\ [][/\ op' \in Cancels =>
                (~InList(dll_hrtimer_head', opw') /\ pending_timer' = pending_timer)
          /\ (pc = "loop" /\ pc' # "after") =>
                (~InList(dll_hrtimer_head', d) /\ pending_timer' = pending_timer)]_vars

\* a queued connection has just been cancelled: it is out of the queue and its
\* pending_timer still holds the deadline
C7_Witness ==
    /\ op = "cancel_queued"
    /\ ~InList(dll_hrtimer_head, opw)
    /\ pending_timer[opw] # 0
    /\ dll_hrtimer_head # <<>>

\* C8 as claimed: a connection is in the timeout registry exactly when its
\* pending_timeout is not NO_PENDING_TIMEOUT.
C8_MemberIffReason ==
    \A w \in Live : InList(dll_timeout_owner, w) <=> pending_timeout[w] # NO_PENDING_TIMEOUT

\* C8 amended: a connection in the timeout registry has a pending_timeout other
\* than NO_PENDING_TIMEOUT; right after lws_set_timeout(wsi, reason, secs), secs
\* not LWS_TO_KILL_SYNC, the connection is in the registry exactly when reason
\* is not NO_PENDING_TIMEOUT; lws_remove_from_timeout_list takes it out of the
\* registry and leaves every pending_timeout as it was.
C8_MemberHasReason ==
    /\ [](\A w \in Live :
             InList(dll_timeout_owner, w) => pending_timeout[w] # NO_PENDING_TIMEOUT)
    /\ [][/\ op' = "arm" =>
                (InList(dll_timeout_owner', opw')
                   <=> pending_timeout'[opw'] # NO_PENDING_TIMEOUT)
          /\ op' = "disarm" =>
                (~InList(dll_timeout_owner', opw')
                   /\ pending_timeout' = pending_timeout)]_vars

\* an armed connection has just been disarmed: it is out of the registry and
\* its pending_timeout still holds the reason
C8_Witness ==
    /\ op = "disarm"
    /\ ~InList(dll_timeout_owner, opw)
    /\ pending_timeout[opw] # NO_PENDING_TIMEOUT
    /\ dll_timeout_owner # <<>>

\* C9: lws_set_timeout with a seconds value other than LWS_TO_KILL_SYNC and
\* lws_remove_from_timeout_list leave the deadline queue and every
\* pending_timer as they were; lws_set_timer_usecs, with a delay or with
\* CANCEL, leaves the registry and every pending_timeout,
\* pending_timeout_limit and pending_timeout_set as they were.
C9_Independent ==
    [][/\ op' \in {"arm", "disarm"} =>
             UNCHANGED <<dll_hrtimer_head, pending_timer>>
       /\ op' \in Cancels \cup {"schedule"} =>
             UNCHANGED <<dll_timeout_owner, pending_timeout, pending_timeout_limit,
                         pending_timeout_set>>]_vars

\* a connection that is in the deadline queue behind another one has just
\* been armed, a third one being in the registry already
C9_Witness ==
    /\ op = "arm"
    /\ Len(dll_hrtimer_head) = 2
    /\ Len(dll_timeout_owner) = 2
    /\ dll_hrtimer_head[2] = opw
    /\ dll_timeout_owner[1] = opw
    /\ ~InList(dll_hrtimer_head, dll_timeout_owner[2])

\* C10: lws_set_timer_usecs(c, CANCEL) on a connection that is not in the
\* deadline queue changes neither the queue nor any field of any connection,
\* nor the position of a sweep in progress: what follows is what would have
\* followed without the call.
C10_CancelAbsentNoOp ==
    [][op' = "cancel_absent" =>
          UNCHANGED <<timers, registry, freed, sweep, fireCount, startDue>>]_vars

\* a connection that was scheduled and cancelled before has just been
\* cancelled again, two others being queued
C10_Witness ==
    /\ op = "cancel_absent"
    /\ Len(dll_hrtimer_head) = 2
    /\ pending_timer[opw] # 0
\* C11: __lws_timed_callback_remove(vh, p) returns 0, takes p out of the list
\* of vh and frees it when p is linked in that list, and returns 1 and leaves
\* the lists as they are when it is not; the lists of the other vhosts are left
\* alone; a remove that repeats one that just returned 0 returns 1.
C11_RemoveOutcome ==
    [][vop'.name = "remove" =>
          /\ IF InList(vh_list(vop'.vh), vop'.p)
             THEN /\ vret'[vop'.th] = <<0>>
                  /\ vh_walk(timed_vh_protocol_list'[vop'.vh], timed_vh_protocol', {})
                        = lws_dll2_remove(vh_list(vop'.vh), vop'.p)
                  /\ vop'.p \notin allocated'
             ELSE /\ vret'[vop'.th] = <<1>>
                  /\ UNCHANGED <<timed_vh_protocol_list, timed_vh_protocol, allocated>>
          /\ \A vh \in Vhosts \ {vop'.vh} : vh_list(vh)' = vh_list(vh)
          /\ vop'.again => vret'[vop'.th] = <<1>>]_vars

\* the only entry of a vhost was removed and the same remove, made again, has
\* returned 1
C11_Witness ==
    /\ vop.name = "remove"
    /\ vop.again
    /\ vret[vop.th] = <<1>>
    /\ vh_list(vop.vh) = <<>>
    /\ vop.p \notin allocated

\* the statements of a thread inside lws_timed_callback_vh_protocol
VhRunning(th) ==
    \/ \E p \in (Entries \ allocated) \cup {NULL} : vh_protocol_malloc(th, p)
    \/ vh_protocol_fail(th)
    \/ vh_protocol_context_lock(th)
    \/ vh_protocol_fields(th)
    \/ vh_protocol_vhost_lock(th)
    \/ vh_protocol_link_next(th)
    \/ vh_protocol_link_head(th)
    \/ vh_protocol_vhost_unlock(th)
    \/ vh_protocol_context_unlock(th)
    \/ vh_protocol_return(th)

\* C12: a thread holds the lock of a vhost only while it holds the context
\* lock; the head of a list is written by lws_timed_callback_vh_protocol only
\* while the thread holds both; while calls are in progress one of them can
\* take its next step (threads on the same or on different vhosts never
\* deadlock); and the list of a vhost holds exactly the entries linked into it
\* and not removed since, each once (no insertion is lost).
C12_LockOrder ==
    /\ [](/\ \A vh \in Vhosts :
                vhost_lock[vh] # NULL => context_lock = vhost_lock[vh]
          /\ (\E th \in Threads : vpc[th] # "idle")
                => \E th \in Threads : ENABLED VhRunning(th)
          /\ \A vh \in Vhosts :
                /\ {vh_list(vh)[i] : i \in 1..Len(vh_list(vh))} = vlinked[vh]
                /\ Len(vh_list(vh)) = Cardinality(vlinked[vh]))
    /\ [][\A vh \in Vhosts :
             (timed_vh_protocol_list'[vh] # timed_vh_protocol_list[vh]
                /\ vop'.name # "remove")
             => (context_lock = vop'.th /\ vhost_lock[vh] = vop'.th)]_vars

\* a thread holding both locks is about to link its entry while the other
\* thread, with an entry for the same vhost, waits for the context lock
C12_Witness ==
    /\ vpc[1] = "link_head"
    /\ vpc[2] = "context_lock"
    /\ vframe[1].vh = vframe[2].vh
    /\ vframe[2].p # NULL
    /\ context_lock = 1
    /\ vhost_lock[vframe[1].vh] = 1

\* C13: when lws_malloc fails, lws_timed_callback_vh_protocol returns 1; the
\* failed allocation and the return leave the lists, the entries and both locks
\* as they are, and the thread holds neither lock as it returns.
C13_AllocFailure ==
    [][/\ (vop'.name = "malloc" /\ vop'.p = NULL) =>
             (/\ vpc'[vop'.th] = "fail"
              /\ UNCHANGED <<timed_vh_protocol_list, timed_vh_protocol, allocated,
                             context_lock, vhost_lock>>)
       /\ vop'.name = "fail" =>
             (/\ vret'[vop'.th] = <<1>>
              /\ vpc'[vop'.th] = "idle"
              /\ context_lock' # vop'.th
              /\ \A vh \in Vhosts : vhost_lock'[vh] # vop'.th
              /\ UNCHANGED <<timed_vh_protocol_list, timed_vh_protocol, allocated,
                             context_lock, vhost_lock>>)]_vars

\* a call has returned 1 while the other thread holds both locks of the same
\* vhost, whose list is not empty
C13_Witness ==
    /\ vop.name = "fail"
    /\ vret[vop.th] = <<1>>
    /\ context_lock \in Threads \ {vop.th}
    /\ vhost_lock[vop.vh] = context_lock
    /\ timed_vh_protocol_list[vop.vh] # NULL

\* C14: in a sweep in which a callback failed and its connection was closed,
\* every other connection that was queued and due when the sweep started, that
\* had a protocol and that no callback cancelled or re-armed, has had its
\* callback invoked once and is out of the queue when the loop has ended.
C14_SweepGoesOn ==
    (pc = "after" /\ \E f \in freed : fireCount[f] > 0) =>
        \A w \in Live :
            (startDue[w] # 0 /\ w \notin cbCancelled /\ w \notin cbSched
               /\ w \notin noProtocol)
            => (fireCount[w] = 1 /\ ~InList(dll_hrtimer_head, w))

\* the statements of lws_dll2_remove
Dll2RemovePath == {"un_detached", "un_next", "un_next_prev", "un_next_store",
                   "un_prev", "un_prev_next", "un_prev_store", "un_tail",
                   "un_tail_prev", "un_tail_store", "un_head", "un_head_next",
                   "un_head_store", "un_owner", "un_clear_prev", "un_clear_next"}

\* the statements lws_close_free_wsi goes through after it was called
ClosePath == Dll2RemovePath \cup {"ks_free"}

\* the statements lws_set_timeout(wsi, reason, LWS_TO_KILL_SYNC) goes through
KillSyncPath == {"rm_lock", "rm_remove", "rm_unlock", "ks_close", "idle"} \cup ClosePath

\* C15: lws_set_timeout(wsi, reason, LWS_TO_KILL_SYNC) takes the connection
\* out of the registry, then calls lws_close_free_wsi once and returns; the
\* thread does not hold the pt lock at that call; no statement of it puts the
\* connection into the registry or writes pending_timeout,
\* pending_timeout_limit or pending_timeout_set.  With LWS_TO_KILL_ASYNC line
\* 168 leaves the registry and the fields as arming with the same reason and 0
\* seconds leaves them.
C15_KillSyncAsync ==
    /\ [](\A th \in Threads :
             tpc[th] = "ks_close" =>
                (/\ tframe[th].secs = LWS_TO_KILL_SYNC
                 /\ pt_lock # th
                 /\ ~InList(dll_timeout_owner, tframe[th].wsi)
                 /\ tframe[th].wsi \notin freed))
    /\ [][\A th \in Threads :
             /\ (tpc'[th] # tpc[th] /\ tpc[th] # "idle"
                   /\ tframe[th].secs = LWS_TO_KILL_SYNC) =>
                   (/\ tpc'[th] \in KillSyncPath
                    /\ UNCHANGED <<pending_timeout, pending_timeout_limit,
                                   pending_timeout_set>>
                    /\ tpc[th] # "rm_lock" =>
                          ~InList(dll_timeout_owner', tframe[th].wsi)
                    /\ tpc[th] = "rm_unlock" => tpc'[th] = "ks_close"
                    /\ tpc'[th] = "ks_close" => tpc[th] = "rm_unlock"
                    /\ tpc[th] = "ks_close" => tpc'[th] \in ClosePath
                    /\ tpc[th] \in ClosePath => tpc'[th] \in ClosePath \cup {"idle"}
                    /\ tpc[th] # "ks_free" => freed' = freed
                    /\ tpc[th] = "ks_free" =>
                          (tpc'[th] = "idle" /\ freed' = freed \cup {tframe[th].wsi}))
             /\ (tpc[th] = "st_set" /\ tpc'[th] # "st_set"
                   /\ tframe[th].secs = LWS_TO_KILL_ASYNC) =>
                   (/\ pending_timeout_limit' =
                          [pending_timeout_limit EXCEPT ![tframe[th].wsi] = 0]
                    /\ pending_timeout_set' =
                          [pending_timeout_set EXCEPT ![tframe[th].wsi] = wall]
                    /\ pending_timeout' =
                          [pending_timeout EXCEPT ![tframe[th].wsi] = tframe[th].reason]
                    /\ dll_timeout_owner' =
                          timeout_link(lws_dll2_remove(dll_timeout_owner, tframe[th].wsi),
                                       tframe[th].wsi, tframe[th].reason)
                    /\ UNCHANGED <<dll_hrtimer_head, dll_hrtimer, pending_timer,
                                   freed>>)]_vars

\* a connection armed with a reason and one second, and scheduled in the
\* deadline queue, has been killed synchronously: it is closed, out of the
\* registry and detached from the queue, reason and limit as armed
C15_Witness ==
    \E th \in Threads :
        /\ tpc[th] = "idle"
        /\ PtWsi[th] \in freed
        /\ ~InList(dll_timeout_owner, PtWsi[th])
        /\ pending_timeout[PtWsi[th]] # NO_PENDING_TIMEOUT
        /\ pending_timeout_limit[PtWsi[th]] = MaxSecs
        /\ pending_timer[PtWsi[th]] # 0
        /\ ~dll_hrtimer.owner[PtWsi[th]]

\* C16: the exposed operations change the registry and the deadline queue
\* under the pt lock, so that calls of two threads never interleave inside a
\* list update: whenever no call is in progress the deadline queue is sorted.
C16_NoInterleavedUpdate ==
    (\A th \in Threads : tpc[th] = "idle")
    => Sorted(dll_hrtimer_head, pending_timer)

\* C17: within a sweep the callbacks are invoked in non-decreasing order of the
\* deadlines the connections hold as they are fired, whatever the callbacks
\* schedule or cancel.
C17_FiringOrder ==
    [][\A a \in Wsi : FireStep(a) => lastFired <= pending_timer[a]]_vars

\* a sweep in which a callback scheduled a connection has just fired a
\* connection of a later deadline than one it fired before
C17_Witness ==
    /\ pc = "cb"
    /\ op = "visit"
    /\ cbSched # {}
    /\ lastFired = pending_timer[d]
    /\ \E w \in Wsi \ ({d} \cup cbSched) :
          fireCount[w] = 1 /\ pending_timer[w] < lastFired

NoDuplicate(q) == \A i \in 1..Len(q), j \in 1..Len(q) : q[i] = q[j] => i = j

\* C18: a connection is at most once in the timeout registry and at most once
\* in the deadline queue, and a sweep invokes the callback of a connection only
\* if the connection was not fired before or was scheduled since it was last
\* fired.
C18_SingleOneShot ==
    /\ [](NoDuplicate(dll_hrtimer_head) /\ NoDuplicate(dll_timeout_owner))
    /\ [][\A a \in Wsi : FireStep(a) => a \notin fired]_vars

\* a connection re-armed by a callback is fired for the second time in one sweep
C18_Witness ==
    /\ pc = "cb"
    /\ op = "visit"
    /\ fireCount[d] = 2
    /\ d \in cbSched
    /\ InList(dll_hrtimer_head, d1)
    /\ InList(dll_timeout_owner, d)

\* C19: a sweep does not invoke the callback of a connection that a callback
\* of this sweep cancelled and that was not scheduled since.
C19_CancelEffective ==
    [][\A a \in Wsi :
          FireStep(a) => ~(a \in cbCancelled /\ a \notin cbSched)]_vars

\* C20: the callbacks a sweep has invoked are never more than the entries the
\* deadline queue held when the sweep was called.
C20_BoundedWork ==
    pc # "idle" => fireCount[1] + fireCount[2] + fireCount[3] <= startLen
====
